---- MODULE Spec2Model ----
(***************************************************************************)
(* Quota-and-cache gateway of the issue tracker: the AI usage ledger       *)
(* (lib/ai checkRateLimit / incrementUsage), the cached AI fields of an     *)
(* issue, their invalidation in the issue and comment routes, and the      *)
(* request handlers POST /api/issues/[issueId]/ai and POST /api/ai.        *)
(*                                                                         *)
(* Every request handler is a process; each step of a handler is the code  *)
(* between two awaits on the database or on the external generator.        *)
(* Optional values (null / undefined) are sequences of length 0 or 1.      *)
(* Times are in seconds.                                                   *)
(***************************************************************************)
EXTENDS Integers, Sequences, FiniteSets, TLC

\* ---------------------------------------------------------------- constants
RATE_LIMIT_PER_MINUTE == 10
RATE_LIMIT_PER_DAY == 100
MIN_DESCRIPTION_LENGTH == 10
MIN_COMMENTS == 5
WindowSeconds == 60
DaySeconds == 86400

\* ------------------------------------------------------------------- bounds
TickSeconds == 60
MaxTicks == 1
MaxRequests == 2
MaxEdits == 1
MaxComments == 6
MaxCommentId == 1
NProcs == 2

StartTime == DaySeconds - TickSeconds
EndTime == StartTime + MaxTicks * TickSeconds

Users == {"u1", "u2"}
Issues == {"i1", "i2", "i3"}
EditedIssues == {"i1"}
RaceIssues == {"i1"}
CachedIssues == {"i2"}
RaceTypes == {"summary"}
Procs == 1..NProcs
Days == 0..(EndTime \div DaySeconds)
Titles == {"t1", "t2"}
NewCommentTexts == {"c1"}
EditedCommentTexts == {"c2"}
AITypes == {"summary", "suggestion", "commentSummary"}
GeneralTypes == {"labelRecommendation", "duplicateDetection"}
ProjectLabels == {{}, {"bug"}}
GenOutcomes == {"ok", "empty", "nokey", "fail"}

Null == <<>>
Some(x) == <<x>>
IsNull(o) == o = <<>>
Val(o) == o[1]

\* A description is a text of a given length; ver tells two texts of the
\* same length apart.
Desc(len, ver) == [len |-> len, ver |-> ver]
DescInputs == {Desc(5, 1), Desc(10, 1), Desc(11, 1), Desc(11, 2)}

VARIABLES now, usage, issues, pc, req, loc, resp, pre, genLog, nreq, nedits

vars == <<now, usage, issues, pc, req, loc, resp, pre, genLog, nreq, nedits>>

\* ------------------------------------------------------------ usage ledger
\* The calendar day (local midnight) of an instant, as a day number.
DayOf(t) == t \div DaySeconds

UsageRow(count, updatedAt) == [count |-> count, updatedAt |-> updatedAt]

\* (variant: the read ignores the date and falls back to the day before)
findUsageAnyDay(us, u, d) ==
    IF ~IsNull(us[u][d]) \/ d = 0 THEN us[u][d] ELSE us[u][d - 1]

\* db.aIUsage.findUnique({ where: { userId_date } })
findUsage(us, u, d) == us[u][d]

\* (variant: the count is not filtered by userId)
recentUsageCountAllUsers(us, u, oneMinuteAgo) ==
    Cardinality({ud \in Users \X Days : /\ ~IsNull(us[ud[1]][ud[2]])
                                       /\ Val(us[ud[1]][ud[2]]).updatedAt >= oneMinuteAgo})

\* db.aIUsage.count({ where: { userId, updatedAt: { gte: oneMinuteAgo } } }):
\* the number of ROWS of the user (one per day) touched in the last minute.
recentUsageCount(us, u, oneMinuteAgo) ==
    Cardinality({d \in Days : /\ ~IsNull(us[u][d])
                              /\ Val(us[u][d]).updatedAt >= oneMinuteAgo})

\* (variant: the daily check lets twice the limit through)
DailyLimitReachedDouble(count) == count >= RATE_LIMIT_PER_DAY + RATE_LIMIT_PER_DAY

\* (variant: the limit itself is still allowed)
DailyLimitReachedStrict(count) == count > RATE_LIMIT_PER_DAY

DailyLimitReached(count) == count >= RATE_LIMIT_PER_DAY

MinuteLimitReached(recentUsage) == recentUsage >= RATE_LIMIT_PER_MINUTE

\* (variant: the reset time is today's midnight, the day is not advanced)
DeniedDailyResetToday(today) ==
    [allowed |-> FALSE, remainingMinute |-> 0, remainingDaily |-> 0,
     resetTime |-> Some(today * DaySeconds)]

\* The three return statements of checkRateLimit.
DeniedDaily(today) ==
    [allowed |-> FALSE, remainingMinute |-> 0, remainingDaily |-> 0,
     resetTime |-> Some((today + 1) * DaySeconds)]

DeniedMinute(count, oneMinuteAgo) ==
    [allowed |-> FALSE, remainingMinute |-> 0,
     remainingDaily |-> RATE_LIMIT_PER_DAY - count,
     resetTime |-> Some(oneMinuteAgo + WindowSeconds)]

\* (variant: the last call of the day is refused, an off-by-one)
AllowedButLast(count, recentUsage) ==
    [allowed |-> count + 1 < RATE_LIMIT_PER_DAY,
     remainingMinute |-> RATE_LIMIT_PER_MINUTE - recentUsage,
     remainingDaily |-> RATE_LIMIT_PER_DAY - count,
     resetTime |-> Null]

Allowed(count, recentUsage) ==
    [allowed |-> TRUE, remainingMinute |-> RATE_LIMIT_PER_MINUTE - recentUsage,
     remainingDaily |-> RATE_LIMIT_PER_DAY - count,
     resetTime |-> Null]

NoRateLimit ==
    [allowed |-> FALSE, remainingMinute |-> 0, remainingDaily |-> 0,
     resetTime |-> Null]

\* (variant: the row is created already counting one call)
createUsageCountOne(us, u, d, t) == [us EXCEPT ![u][d] = Some(UsageRow(1, t))]

\* db.aIUsage.create({ data: { userId, date: today, count: 0 } }), at instant t.
createUsage(us, u, d, t) == [us EXCEPT ![u][d] = Some(UsageRow(0, t))]

\* (variant: the row is written with count 1 whether it exists or not)
upsertUsageSet(us, u, t) == [us EXCEPT ![u][DayOf(t)] = Some(UsageRow(1, t))]

\* (variant: the update branch adds 2)
upsertUsageTwice(us, u, t) ==
    LET d == DayOf(t)
        row == us[u][d]
    IN  [us EXCEPT ![u][d] =
            IF IsNull(row) THEN Some(UsageRow(1, t))
            ELSE Some(UsageRow(Val(row).count + 2, t))]

\* db.aIUsage.upsert(...) of incrementUsage, at instant t.
upsertUsage(us, u, t) ==
    LET d == DayOf(t)
        row == us[u][d]
    IN  [us EXCEPT ![u][d] =
            IF IsNull(row) THEN Some(UsageRow(1, t))
            ELSE Some(UsageRow(Val(row).count + 1, t))]

\* count of a (user, day), 0 when there is no row
CountOf(us, u, d) == IF IsNull(us[u][d]) THEN 0 ELSE Val(us[u][d]).count

\* ------------------------------------------------------------------ issues
Comment(author, content) == [authorId |-> author, content |-> content, deleted |-> FALSE]

\* comments: { where: { deletedAt: null }, orderBy: createdAt } of checkIssueAccess
visibleComments(cs) == SelectSeq(cs, LAMBDA c : ~c.deleted)

NewIssue(title, description, creator, cs) ==
    [title |-> title, description |-> description, creatorId |-> creator,
     status |-> "BACKLOG", customStatusId |-> Null, assigneeId |-> Null,
     dueDate |-> Null, priority |-> "MEDIUM", position |-> 0, labelIds |-> {},
     comments |-> cs,
     aiSummary |-> Null, aiSummaryCachedAt |-> Null,
     aiSuggestion |-> Null, aiSuggestionCachedAt |-> Null,
     aiCommentSummary |-> Null, aiCommentSummaryCachedAt |-> Null]

\* What the AI route reads of an issue: the row and its non-deleted comments.
IssueView(iss) == [iss EXCEPT !.comments = visibleComments(iss.comments)]

ProjectOwner == "u1"
Role == [u \in Users |-> "MEMBER"]

\* ------------------------------------------------------------- generation
\* A generated text: text is "" for an empty string; from records the inputs
\* the generator was given; json marks the JSON encoding of a digest object.
Text(text, from) == [text |-> text, from |-> from, json |-> FALSE]

\* JavaScript truthiness of a nullable string: not null and not "".
Truthy(o) == ~IsNull(o) /\ (Val(o).json \/ Val(o).text # "")

\* a || b on strings
OrElse(a, b) == IF a = "" THEN b ELSE a

JsonStringify(obj) == [obj EXCEPT !.json = TRUE]
JsonParse(str) == [str EXCEPT !.json = FALSE]

SummaryInputs(title, description) ==
    [title |-> title, description |-> description, comments |-> <<>>]

\* commentData of the commentSummary branch
commentData(cs) ==
    [k \in 1..Len(cs) |-> [author |-> cs[k].authorId, content |-> cs[k].content]]

DigestInputs(title, comments) ==
    [title |-> title, description |-> Null, comments |-> comments]

\* (variant: a description of exactly the minimum length is accepted)
canUseAIAtLeast(description) ==
    /\ ~IsNull(description)
    /\ Val(description).len >= MIN_DESCRIPTION_LENGTH

\* Helper to validate description length: !!description && length > 10
canUseAI(description) ==
    /\ ~IsNull(description)
    /\ Val(description).len > MIN_DESCRIPTION_LENGTH

\* The guard at the head of generateIssueSummary / generateSolutionSuggestion
\* (reading .length of a null description throws as well)
descriptionTooShort(description) ==
    \/ IsNull(description)
    \/ Val(description).len <= MIN_DESCRIPTION_LENGTH

\* The guard at the head of summarizeComments
tooFewComments(comments) == Len(comments) < MIN_COMMENTS

\* (variant: the raw completion is returned as it is, also when empty)
generateIssueSummaryRaw(title, description, raw) ==
    Text(raw, SummaryInputs(title, description))

\* generateIssueSummary / generateSolutionSuggestion given the raw completion
generateIssueSummary(title, description, raw) ==
    Text(OrElse(raw, "Unable to generate summary."), SummaryInputs(title, description))

generateSolutionSuggestion(title, description, raw) ==
    Text(OrElse(raw, "Unable to generate suggestions."), SummaryInputs(title, description))

\* summarizeComments given the raw completion: an object with a summary
summarizeComments(title, comments, raw) ==
    Text(raw, DigestInputs(title, comments))

\* ------------------------------------------------------- the AI route body
summaryCached(iss) == Truthy(iss.aiSummary) /\ ~IsNull(iss.aiSummaryCachedAt)
suggestionCached(iss) == Truthy(iss.aiSuggestion) /\ ~IsNull(iss.aiSuggestionCachedAt)
commentSummaryCached(iss) ==
    Truthy(iss.aiCommentSummary) /\ ~IsNull(iss.aiCommentSummaryCachedAt)

\* What the handler does after the rate limit allowed the request:
\* "hit" (answer from the cache), "invalid" (400) or "generate".
routeDecision(type, iss) ==
    CASE type = "summary" ->
            IF summaryCached(iss) THEN "hit"
            ELSE IF ~canUseAI(iss.description) THEN "invalid" ELSE "generate"
      [] type = "suggestion" ->
            IF suggestionCached(iss) THEN "hit"
            ELSE IF ~canUseAI(iss.description) THEN "invalid" ELSE "generate"
      [] type = "commentSummary" ->
            IF Len(iss.comments) < MIN_COMMENTS THEN "invalid"
            ELSE IF commentSummaryCached(iss) THEN "hit" ELSE "generate"

cachedContent(type, iss) ==
    CASE type = "summary" -> Val(iss.aiSummary)
      [] type = "suggestion" -> Val(iss.aiSuggestion)
      [] type = "commentSummary" -> JsonParse(Val(iss.aiCommentSummary))

validationMessage(type) ==
    IF type = "commentSummary"
    THEN "At least 5 comments are required for summarization"
    ELSE "Description must be longer than 10 characters for AI features"

\* ---------------------------------------------------------------- responses
Response(status, cached, content, remaining, error) ==
    [status |-> status, cached |-> cached, content |-> content,
     remaining |-> remaining, error |-> error]

NoResponse == Response(0, "none", Null, Null, "")

Remaining(minute, daily) == Some([minute |-> minute, daily |-> daily])

\* getRateLimitMessage, without the number of seconds it prints
getRateLimitMessage(remainingMinute, remainingDaily) ==
    IF remainingDaily = 0 THEN "Daily AI limit reached. Resets at midnight."
    ELSE IF remainingMinute = 0 THEN "Rate limit reached. Please wait."
    ELSE "AI requests remaining today."

\* (variant: the denial is answered with status 400)
rateLimitedBadRequest(rl) ==
    Response(400, "none", Null, Null,
             getRateLimitMessage(rl.remainingMinute, rl.remainingDaily))

rateLimited(rl) ==
    Response(429, "none", Null, Null,
             getRateLimitMessage(rl.remainingMinute, rl.remainingDaily))

cachedResponse(content, rl) ==
    Response(200, "true", Some(content), Remaining(rl.remainingMinute, rl.remainingDaily), "")

generatedResponse(content, rl) ==
    Response(200, "false", Some(content),
             Remaining(rl.remainingMinute - 1, rl.remainingDaily - 1), "")

\* POST /api/ai answers without a cached flag
generalResponse(result, rl) ==
    Response(200, "none", Some(result),
             Remaining(rl.remainingMinute - 1, rl.remainingDaily - 1), "")

errorResponse(status, msg) == Response(status, "none", Null, Null, msg)

\* ------------------------------------------------------- handler processes
EmptyBody ==
    [title |-> Null, description |-> Null, status |-> Null, customStatusId |-> Null,
     assigneeId |-> Null, dueDate |-> Null, priority |-> Null, labelIds |-> Null,
     position |-> Null]

IdleReq ==
    [kind |-> "none", user |-> "u1", issue |-> "i1", type |-> "none",
     body |-> EmptyBody, commentId |-> 0, content |-> ""]

Request(kind, u, i, type) ==
    [IdleReq EXCEPT !.kind = kind, !.user = u, !.issue = i, !.type = type]

\* The locals of a handler.  genCalled, increments and failedAt are history:
\* whether the external completion API was invoked, how often incrementUsage
\* ran, and the await at which a database call threw.
IdleLoc ==
    [issue |-> Null, labels |-> {}, today |-> 0, oneMinuteAgo |-> 0,
     dailyCount |-> 0, checked |-> FALSE, rateLimit |-> NoRateLimit,
     content |-> Null, genCalled |-> FALSE, increments |-> 0, failedAt |-> "none",
     recentUsage |-> 0]

Snapshot == [usage |-> usage, issues |-> issues, genLog |-> genLog]

Finish(p, response) ==
    /\ pc' = [pc EXCEPT ![p] = "done"]
    /\ resp' = [resp EXCEPT ![p] = response]

Goto(p, label) ==
    /\ pc' = [pc EXCEPT ![p] = label]
    /\ UNCHANGED resp

IsGeneration(request) == request.kind \in {"ai", "general"}

Begin(p, request, locals) ==
    /\ pc[p] = "idle"
    /\ IF IsGeneration(request)
       THEN nreq < MaxRequests /\ nreq' = nreq + 1 /\ UNCHANGED nedits
       ELSE nedits < MaxEdits /\ nedits' = nedits + 1 /\ UNCHANGED nreq
    /\ req' = [req EXCEPT ![p] = request]
    /\ loc' = [loc EXCEPT ![p] = locals]
    /\ pre' = [pre EXCEPT ![p] = Some(Snapshot)]

\* ----- POST /api/issues/[issueId]/ai: checkIssueAccess reads the issue
StartIssueAI(p, u, i, type) ==
    /\ Begin(p, Request("ai", u, i, type),
             [IdleLoc EXCEPT !.issue = Some(IssueView(issues[i]))])
    /\ Goto(p, "rl_find")
    /\ UNCHANGED <<now, usage, issues, genLog>>

\* ----- POST /api/ai: db.project.findUnique reads the labels of the project
StartGeneralAI(p, u, type, labels) ==
    /\ Begin(p, Request("general", u, "i1", type),
             [IdleLoc EXCEPT !.labels = labels])
    /\ Goto(p, "rl_find")
    /\ UNCHANGED <<now, usage, issues, genLog>>

\* What POST /api/ai does after the rate limit allowed the request.
generalDecision(type, labels) ==
    IF type = "labelRecommendation" /\ labels = {} THEN "empty" ELSE "generate"

\* (variant: the cache is looked up before the rate limit is looked at)
afterRateLimitCacheFirst(rl, decision) ==
    IF decision = "hit" THEN "hit"
    ELSE IF ~rl.allowed THEN "denied" ELSE decision

\* The branch a handler takes with the result of checkRateLimit: the 429
\* return comes before the branches on the request type.
afterRateLimit(rl, decision) == IF ~rl.allowed THEN "denied" ELSE decision

\* The handler from the return of checkRateLimit up to its next await:
\* 429, cache hit, 400, the empty answer, or on to incrementUsage.
continueHandler(p, rl) ==
    LET iss == Val(loc[p].issue)
        decision == IF req[p].kind = "ai"
                    THEN routeDecision(req[p].type, iss)
                    ELSE generalDecision(req[p].type, loc[p].labels)
        branch == afterRateLimit(rl, decision)
    IN  CASE branch = "denied" -> Finish(p, rateLimited(rl))
          [] branch = "hit" ->
                Finish(p, cachedResponse(cachedContent(req[p].type, iss), rl))
          [] branch = "invalid" ->
                Finish(p, errorResponse(400, validationMessage(req[p].type)))
          [] branch = "empty" ->
                Finish(p, Response(200, "none", Null, Null,
                                   "No labels available in this project"))
          [] branch = "generate" -> Goto(p, "incr")

\* ----- checkRateLimit: now, today, oneMinuteAgo; findUnique; daily check
checkRateLimitFind(p) ==
    /\ pc[p] = "rl_find"
    /\ LET u == req[p].user
           today == DayOf(now)
           row == findUsage(usage, u, today)
           l1 == [loc[p] EXCEPT !.today = today,
                                !.oneMinuteAgo = now - WindowSeconds]
       IN  IF IsNull(row)
           THEN /\ loc' = [loc EXCEPT ![p] = l1]
                /\ Goto(p, "rl_create")
           ELSE IF DailyLimitReached(Val(row).count)
           THEN /\ loc' = [loc EXCEPT ![p] =
                        [l1 EXCEPT !.dailyCount = Val(row).count, !.checked = TRUE,
                                   !.rateLimit = DeniedDaily(today)]]
                /\ continueHandler(p, DeniedDaily(today))
           ELSE /\ loc' = [loc EXCEPT ![p] = [l1 EXCEPT !.dailyCount = Val(row).count]]
                /\ Goto(p, "rl_count")
    /\ UNCHANGED <<now, usage, issues, req, pre, genLog, nreq, nedits>>

\* ----- checkRateLimit: db.aIUsage.create of today's row with count 0; the
\* unique index (userId, date) rejects a second row, the handler's catch
\* answers 500.
checkRateLimitCreate(p) ==
    /\ pc[p] = "rl_create"
    /\ LET u == req[p].user
           today == loc[p].today
       IN  IF ~IsNull(usage[u][today])
           THEN /\ Finish(p, errorResponse(500, "Unique constraint failed"))
                /\ UNCHANGED <<usage, loc>>
           ELSE /\ usage' = createUsage(usage, u, today, now)
                /\ IF DailyLimitReached(0)
                   THEN /\ loc' = [loc EXCEPT ![p].checked = TRUE,
                                              ![p].rateLimit = DeniedDaily(today)]
                        /\ continueHandler(p, DeniedDaily(today))
                   ELSE /\ loc' = [loc EXCEPT ![p].dailyCount = 0]
                        /\ Goto(p, "rl_count")
    /\ UNCHANGED <<now, issues, req, pre, genLog, nreq, nedits>>

\* ----- checkRateLimit: db.aIUsage.count, the minute check and the return;
\* then the handler up to its next await.
checkRateLimitCount(p) ==
    /\ pc[p] = "rl_count"
    /\ LET u == req[p].user
           recentUsage == recentUsageCount(usage, u, loc[p].oneMinuteAgo)
           rl == IF MinuteLimitReached(recentUsage)
                 THEN DeniedMinute(loc[p].dailyCount, loc[p].oneMinuteAgo)
                 ELSE Allowed(loc[p].dailyCount, recentUsage)
       IN  /\ loc' = [loc EXCEPT ![p].rateLimit = rl, ![p].checked = TRUE,
                                  ![p].recentUsage = recentUsage]
           /\ continueHandler(p, rl)
    /\ UNCHANGED <<now, usage, issues, req, pre, genLog, nreq, nedits>>

\* ----- await incrementUsage(session.user.id)
incrementUsage(p) ==
    /\ pc[p] = "incr"
    /\ usage' = upsertUsage(usage, req[p].user, now)
    /\ loc' = [loc EXCEPT ![p].increments = @ + 1]
    /\ Goto(p, "gen")
    /\ UNCHANGED <<now, issues, req, pre, genLog, nreq, nedits>>

\* The guard a generation function runs before it builds the client.
generationGuardFails(request, iss) ==
    CASE request.kind # "ai" -> FALSE
      [] request.type = "commentSummary" -> tooFewComments(commentData(iss.comments))
      [] OTHER -> descriptionTooShort(iss.description)

\* The value a generation function returns for a raw completion.
generated(request, iss, raw) ==
    CASE request.kind # "ai" -> Text(raw, SummaryInputs("", Null))
      [] request.type = "summary" -> generateIssueSummary(iss.title, iss.description, raw)
      [] request.type = "suggestion" -> generateSolutionSuggestion(iss.title, iss.description, raw)
      [] request.type = "commentSummary" ->
            summarizeComments(iss.title, commentData(iss.comments), raw)

\* ----- the generation function: guard, getOpenAIClient (throws without
\* OPENAI_API_KEY), openai.chat.completions.create (may throw), the result.
\* outcome is what the environment does: "nokey", "fail", "empty", "ok".
callGenerator(p, outcome) ==
    /\ pc[p] = "gen"
    /\ LET iss == IF req[p].kind = "ai" THEN Val(loc[p].issue)
                  ELSE NewIssue("", Null, "u1", <<>>)
           raw == IF outcome = "empty" THEN "" ELSE "text"
           result == generated(req[p], iss, raw)
       IN  IF generationGuardFails(req[p], iss)
           THEN /\ Finish(p, errorResponse(500, validationMessage(req[p].type)))
                /\ UNCHANGED <<loc, genLog>>
           ELSE IF outcome = "nokey"
           THEN /\ Finish(p, errorResponse(500, "OPENAI_API_KEY environment variable is not set"))
                /\ UNCHANGED <<loc, genLog>>
           ELSE /\ genLog' = [genLog EXCEPT ![req[p].user] = Append(@, now)]
                /\ IF outcome = "fail"
                   THEN /\ loc' = [loc EXCEPT ![p].genCalled = TRUE]
                        /\ Finish(p, errorResponse(500, "upstream error"))
                   ELSE /\ loc' = [loc EXCEPT ![p].genCalled = TRUE,
                                              ![p].content = Some(result)]
                        /\ IF req[p].kind = "ai" THEN Goto(p, "persist")
                           ELSE Finish(p, generalResponse(result, loc[p].rateLimit))
    /\ UNCHANGED <<now, usage, issues, req, pre, nreq, nedits>>

\* (variant: the write keeps a text that is already in the slot)
writeSlotIfEmpty(iss, type, content, t) ==
    CASE type = "summary" ->
            IF Truthy(iss.aiSummary) THEN iss
            ELSE [iss EXCEPT !.aiSummary = Some(content), !.aiSummaryCachedAt = Some(t)]
      [] type = "suggestion" ->
            IF Truthy(iss.aiSuggestion) THEN iss
            ELSE [iss EXCEPT !.aiSuggestion = Some(content), !.aiSuggestionCachedAt = Some(t)]
      [] type = "commentSummary" ->
            IF Truthy(iss.aiCommentSummary) THEN iss
            ELSE [iss EXCEPT !.aiCommentSummary = Some(JsonStringify(content)),
                             !.aiCommentSummaryCachedAt = Some(t)]

\* db.issue.update({ data: { <slot>: content, <slot>CachedAt: new Date() } })
writeSlot(iss, type, content, t) ==
    CASE type = "summary" ->
            [iss EXCEPT !.aiSummary = Some(content), !.aiSummaryCachedAt = Some(t)]
      [] type = "suggestion" ->
            [iss EXCEPT !.aiSuggestion = Some(content), !.aiSuggestionCachedAt = Some(t)]
      [] type = "commentSummary" ->
            [iss EXCEPT !.aiCommentSummary = Some(JsonStringify(content)),
                        !.aiCommentSummaryCachedAt = Some(t)]

\* ----- cache the result and answer
persistResult(p) ==
    /\ pc[p] = "persist"
    /\ issues' = [issues EXCEPT ![req[p].issue] =
                      writeSlot(@, req[p].type, Val(loc[p].content), now)]
    /\ Finish(p, generatedResponse(Val(loc[p].content), loc[p].rateLimit))
    /\ UNCHANGED <<now, usage, req, loc, pre, genLog, nreq, nedits>>

\* (variant: a description change leaves the cached texts in place)
updateDataKeepsCache(iss, body) ==
    LET a == IF IsNull(body.title) THEN iss ELSE [iss EXCEPT !.title = Val(body.title)]
        b == IF IsNull(body.description) THEN a
             ELSE [a EXCEPT !.description = body.description]
    IN  IF IsNull(body.status) THEN b ELSE [b EXCEPT !.status = Val(body.status)]

\* (variant: a description change clears the comment summary as well)
updateDataClearsAll(iss, body) ==
    LET a == IF IsNull(body.title) THEN iss ELSE [iss EXCEPT !.title = Val(body.title)]
    IN  IF IsNull(body.description) THEN a
        ELSE [a EXCEPT !.description = body.description,
                       !.aiSummary = Null, !.aiSuggestion = Null,
                       !.aiSummaryCachedAt = Null, !.aiSuggestionCachedAt = Null,
                       !.aiCommentSummary = Null, !.aiCommentSummaryCachedAt = Null]

\* (variant: a status change clears the cache, as the comment in the handler says)
updateDataStatusClears(iss, body) ==
    LET a == IF IsNull(body.description) THEN iss
             ELSE [iss EXCEPT !.description = body.description,
                              !.aiSummary = Null, !.aiSuggestion = Null,
                              !.aiSummaryCachedAt = Null, !.aiSuggestionCachedAt = Null]
    IN  IF IsNull(body.status) THEN a
        ELSE [a EXCEPT !.status = Val(body.status),
                       !.aiSummary = Null, !.aiSuggestion = Null,
                       !.aiSummaryCachedAt = Null, !.aiSuggestionCachedAt = Null]

\* ----- PUT /api/issues/[issueId]: updateData built from the validated body
updateData(iss, body) ==
    LET a == IF IsNull(body.title) THEN iss ELSE [iss EXCEPT !.title = Val(body.title)]
        b == IF IsNull(body.description) THEN a
             ELSE [a EXCEPT !.description = body.description,
                            !.aiSummary = Null, !.aiSuggestion = Null,
                            !.aiSummaryCachedAt = Null, !.aiSuggestionCachedAt = Null]
        c == IF IsNull(body.status) THEN b ELSE [b EXCEPT !.status = Val(body.status)]
        d == IF IsNull(body.customStatusId) THEN c
             ELSE [c EXCEPT !.customStatusId = body.customStatusId]
        e == IF IsNull(body.assigneeId) THEN d
             ELSE [d EXCEPT !.assigneeId =
                        IF Val(body.assigneeId) = "" THEN Null ELSE body.assigneeId]
        f == IF IsNull(body.dueDate) THEN e
             ELSE [e EXCEPT !.dueDate =
                        IF Val(body.dueDate) = "" THEN Null ELSE body.dueDate]
        g == IF IsNull(body.priority) THEN f ELSE [f EXCEPT !.priority = Val(body.priority)]
        h == IF IsNull(body.position) THEN g ELSE [g EXCEPT !.position = Val(body.position)]
    IN  IF IsNull(body.labelIds) THEN h ELSE [h EXCEPT !.labelIds = Val(body.labelIds)]

\* The request bodies tried: one field each, and two mixed ones.
OtherFieldBodies ==
    { [EmptyBody EXCEPT !.status = Some("DONE")],
      [EmptyBody EXCEPT !.assigneeId = Some("u2"), !.priority = Some("HIGH"),
                        !.dueDate = Some("2025-12-31"), !.labelIds = Some({"bug"}),
                        !.position = Some(1), !.customStatusId = Some("cs1")] }

Bodies ==
    {[EmptyBody EXCEPT !.title = Some("t2")]}
    \cup {[EmptyBody EXCEPT !.description = Some(d)] : d \in DescInputs}
    \cup OtherFieldBodies
    \cup { [EmptyBody EXCEPT !.title = Some("t2"), !.description = Some(Desc(11, 2))],
           [EmptyBody EXCEPT !.status = Some("DONE"), !.description = Some(Desc(11, 1))] }

UpdateIssue(p, u, i, body) ==
    /\ Begin(p, [Request("put", u, i, "none") EXCEPT !.body = body], IdleLoc)
    /\ issues' = [issues EXCEPT ![i] = updateData(@, body)]
    /\ Finish(p, Response(200, "none", Null, Null, ""))
    /\ UNCHANGED <<now, usage, genLog>>

\* ----- POST /api/issues/[issueId]/comments: db.comment.create ...
AddComment(p, u, i, c) ==
    /\ Len(issues[i].comments) < MaxComments
    /\ Begin(p, [Request("comment_add", u, i, "none") EXCEPT !.content = c], IdleLoc)
    /\ issues' = [issues EXCEPT ![i].comments = Append(@, Comment(u, c))]
    /\ Goto(p, "clear")
    /\ UNCHANGED <<now, usage, genLog>>

\* ... then db.issue.update({ aiCommentSummary: null, aiCommentSummaryCachedAt: null })
clearCommentSummary(p) ==
    /\ pc[p] = "clear"
    /\ issues' = [issues EXCEPT ![req[p].issue].aiCommentSummary = Null,
                                ![req[p].issue].aiCommentSummaryCachedAt = Null]
    /\ Finish(p, Response(201, "none", Null, Null, ""))
    /\ UNCHANGED <<now, usage, req, loc, pre, genLog, nreq, nedits>>

commentFound(cs, k) == k <= Len(cs) /\ ~cs[k].deleted

\* ----- PUT /api/issues/[issueId]/comments: edit the content of a comment
EditComment(p, u, i, k, c) ==
    /\ Begin(p, [Request("comment_edit", u, i, "none") EXCEPT !.commentId = k, !.content = c],
             IdleLoc)
    /\ LET cs == issues[i].comments
       IN  IF ~commentFound(cs, k)
           THEN Finish(p, errorResponse(404, "Comment not found")) /\ UNCHANGED issues
           ELSE IF cs[k].authorId # u
           THEN Finish(p, errorResponse(403, "Only the author can edit this comment"))
                /\ UNCHANGED issues
           ELSE /\ issues' = [issues EXCEPT ![i].comments[k].content = c]
                /\ Finish(p, Response(200, "none", Null, Null, ""))
    /\ UNCHANGED <<now, usage, genLog>>

canDelete(comment, iss, u) ==
    \/ comment.authorId = u
    \/ iss.creatorId = u
    \/ ProjectOwner = u
    \/ Role[u] \in {"OWNER", "ADMIN"}

\* ----- DELETE /api/issues/[issueId]/comments: soft delete
DeleteComment(p, u, i, k) ==
    /\ Begin(p, [Request("comment_delete", u, i, "none") EXCEPT !.commentId = k], IdleLoc)
    /\ LET cs == issues[i].comments
       IN  IF ~commentFound(cs, k)
           THEN Finish(p, errorResponse(404, "Comment not found")) /\ UNCHANGED issues
           ELSE IF ~canDelete(cs[k], issues[i], u)
           THEN Finish(p, errorResponse(403, "Forbidden")) /\ UNCHANGED issues
           ELSE /\ issues' = [issues EXCEPT ![i].comments[k].deleted = TRUE]
                /\ Finish(p, Response(200, "none", Null, Null, ""))
    /\ UNCHANGED <<now, usage, genLog>>

\* The awaits of a generation handler that call the database.
LedgerAwaits == {"rl_find", "rl_create", "rl_count"}
StoreAwaits == LedgerAwaits \cup {"incr", "persist"}

\* (variant: checkRateLimit swallows the error and the request goes on)
storeErrorFailOpen(p) ==
    /\ loc' = [loc EXCEPT ![p].failedAt = pc[p]]
    /\ IF pc[p] \in LedgerAwaits THEN Goto(p, "incr")
       ELSE Finish(p, errorResponse(500, "database error"))

\* (variant: a failed cache write is swallowed and the text is answered)
storeErrorSwallowed(p) ==
    /\ loc' = [loc EXCEPT ![p].failedAt = pc[p]]
    /\ IF pc[p] = "persist"
       THEN Finish(p, generatedResponse(Val(loc[p].content), loc[p].rateLimit))
       ELSE Finish(p, errorResponse(500, "database error"))

\* The catch of the handler: whatever was thrown is answered with 500.
storeError(p) ==
    /\ loc' = [loc EXCEPT ![p].failedAt = pc[p]]
    /\ Finish(p, errorResponse(500, "database error"))

\* ----- a database call of the handler throws (the store is unavailable)
storeThrows(p) ==
    /\ pc[p] \in StoreAwaits
    /\ storeError(p)
    /\ UNCHANGED <<now, usage, issues, req, pre, genLog, nreq, nedits>>

\* ----- the response is sent; the handler's locals are gone
Return(p) ==
    /\ pc[p] = "done"
    /\ pc' = [pc EXCEPT ![p] = "idle"]
    /\ req' = [req EXCEPT ![p] = IdleReq]
    /\ loc' = [loc EXCEPT ![p] = IdleLoc]
    /\ resp' = [resp EXCEPT ![p] = NoResponse]
    /\ pre' = [pre EXCEPT ![p] = Null]
    /\ UNCHANGED <<now, usage, issues, genLog, nreq, nedits>>

\* ----- time passes
Tick ==
    /\ now + TickSeconds <= EndTime
    /\ now' = now + TickSeconds
    /\ UNCHANGED <<usage, issues, pc, req, loc, resp, pre, genLog, nreq, nedits>>

\* ------------------------------------------------------------------- Init
Repeat(x, n) == [k \in 1..n |-> x]

NoUsage == [u \in Users |-> [d \in Days |-> Null]]

\* Ledgers a run starts from: u1 made 9 calls a moment ago, or 99 calls
\* earlier today; u2 has used nothing yet.
InitLedgers ==
    { [usage |-> [NoUsage EXCEPT !["u1"][DayOf(StartTime)] =
                      Some(UsageRow(RATE_LIMIT_PER_MINUTE - 1, StartTime))],
       genLog |-> Repeat(StartTime, RATE_LIMIT_PER_MINUTE - 1)],
      [usage |-> [NoUsage EXCEPT !["u1"][DayOf(StartTime)] =
                      Some(UsageRow(RATE_LIMIT_PER_DAY - 1, StartTime - 3600))],
       genLog |-> <<>>] }

\* i1 has nothing cached; i2 had all three texts generated an hour ago; i3
\* has a short description and too few comments.
InitIssues ==
    LET cs == Repeat(Comment("u1", "c1"), MIN_COMMENTS)
        d == Some(Desc(11, 1))
        t == StartTime - 3600
        fresh == NewIssue("t1", d, "u1", cs)
    IN  [i \in Issues |->
            IF i \in EditedIssues THEN fresh
            ELSE IF i = "i3"
            THEN NewIssue("t1", Some(Desc(5, 1)), "u2",
                          Repeat(Comment("u2", "c1"), MIN_COMMENTS - 1))
            ELSE writeSlot(writeSlot(writeSlot(fresh,
                    "summary", generateIssueSummary("t1", d, "text"), t),
                    "suggestion", generateSolutionSuggestion("t1", d, "text"), t),
                    "commentSummary", summarizeComments("t1", commentData(cs), "text"), t)]

Init ==
    /\ now = StartTime
    /\ \E l \in InitLedgers :
          /\ usage = l.usage
          /\ genLog = [u \in Users |-> IF u = "u1" THEN l.genLog ELSE <<>>]
    /\ issues = InitIssues
    /\ pc = [p \in Procs |-> "idle"]
    /\ req = [p \in Procs |-> IdleReq]
    /\ loc = [p \in Procs |-> IdleLoc]
    /\ resp = [p \in Procs |-> NoResponse]
    /\ pre = [p \in Procs |-> Null]
    /\ nreq = 0
    /\ nedits = 0

\* ------------------------------------------------------------------- Next
AllIdle == \A q \in Procs : pc[q] = "idle"

\* Requests that do not overlap: a handler starts when no other is running.
Serial(p) == p = 1 /\ AllIdle

StartsGeneration ==
    \/ \E u \in Users, i \in Issues, t \in AITypes : Serial(1) /\ StartIssueAI(1, u, i, t)
    \/ \E u \in Users, t \in GeneralTypes, l \in ProjectLabels :
          Serial(1) /\ StartGeneralAI(1, u, t, l)

StartsEdit ==
    \/ \E u \in Users, i \in EditedIssues, b \in Bodies : Serial(1) /\ UpdateIssue(1, u, i, b)
    \/ \E u \in Users, i \in EditedIssues, c \in NewCommentTexts :
          Serial(1) /\ AddComment(1, u, i, c)
    \/ \E u \in Users, i \in EditedIssues, k \in 1..MaxCommentId, c \in EditedCommentTexts :
          Serial(1) /\ EditComment(1, u, i, k, c)
    \/ \E u \in Users, i \in EditedIssues, k \in 1..MaxCommentId :
          Serial(1) /\ DeleteComment(1, u, i, k)

GenerationSteps ==
    \/ \E p \in Procs : checkRateLimitFind(p)
    \/ \E p \in Procs : checkRateLimitCreate(p)
    \/ \E p \in Procs : checkRateLimitCount(p)
    \/ \E p \in Procs : incrementUsage(p)
    \/ \E p \in Procs, o \in GenOutcomes : callGenerator(p, o)
    \/ \E p \in Procs : persistResult(p)

\* Non-overlapping requests of every kind, with time passing.
Next ==
    \/ StartsGeneration
    \/ StartsEdit
    \/ GenerationSteps
    \/ \E p \in Procs : clearCommentSummary(p)
    \/ \E p \in Procs : Return(p)
    \/ Tick

\* Non-overlapping generation requests only, with time passing.
NextQuota ==
    \/ StartsGeneration
    \/ GenerationSteps
    \/ \E p \in Procs : Return(p)
    \/ Tick

\* Non-overlapping generation requests and edits at one instant.
NextCache ==
    \/ \E u \in Users, i \in Issues, t \in AITypes : Serial(1) /\ StartIssueAI(1, u, i, t)
    \/ StartsEdit
    \/ GenerationSteps
    \/ \E p \in Procs : clearCommentSummary(p)
    \/ \E p \in Procs : Return(p)

\* Handlers are interchangeable: a new request takes the first idle one.
FirstIdle(p) == pc[p] = "idle" /\ \A q \in 1..(p - 1) : pc[q] # "idle"

\* Overlapping generation requests on one issue.
NextRace ==
    \/ \E p \in Procs, u \in Users, i \in RaceIssues, t \in RaceTypes :
          FirstIdle(p) /\ StartIssueAI(p, u, i, t)
    \/ GenerationSteps
    \/ \E p \in Procs : Return(p)

\* Non-overlapping requests and updates on the issue whose texts are cached.
NextRegen ==
    \/ \E u \in Users, i \in CachedIssues, t \in AITypes : Serial(1) /\ StartIssueAI(1, u, i, t)
    \/ \E u \in Users, i \in CachedIssues, b \in Bodies : Serial(1) /\ UpdateIssue(1, u, i, b)
    \/ GenerationSteps
    \/ \E p \in Procs : Return(p)

\* The bodies that carry a description only.
DescriptionBodies == {[EmptyBody EXCEPT !.description = Some(d)] : d \in DescInputs}

\* Overlapping requests, description updates and new comments on one issue.
NextOverlap ==
    \/ \E p \in Procs, u \in Users, i \in EditedIssues, t \in AITypes :
          FirstIdle(p) /\ StartIssueAI(p, u, i, t)
    \/ \E p \in Procs, u \in Users, i \in EditedIssues, b \in DescriptionBodies :
          FirstIdle(p) /\ UpdateIssue(p, u, i, b)
    \/ \E p \in Procs, u \in Users, i \in EditedIssues, c \in NewCommentTexts :
          FirstIdle(p) /\ AddComment(p, u, i, c)
    \/ GenerationSteps
    \/ \E p \in Procs : clearCommentSummary(p)
    \/ \E p \in Procs : Return(p)

\* Non-overlapping generation requests whose database calls may throw.
NextFail ==
    \/ StartsGeneration
    \/ GenerationSteps
    \/ \E p \in Procs : storeThrows(p)
    \/ \E p \in Procs : Return(p)

Spec == Init /\ [][Next]_vars

SpecFail == Init /\ [][NextFail]_vars

SpecOverlap == Init /\ [][NextOverlap]_vars

SpecRegen == Init /\ [][NextRegen]_vars

SpecRace == Init /\ [][NextRace]_vars

SpecQuota == Init /\ [][NextQuota]_vars

SpecCache == Init /\ [][NextCache]_vars

\* ================================================================ claims
Done(p) == pc[p] = "done"

\* usage and issues as they were when the handler started
Before(p) == Val(pre[p])

SameCounts(us1, us2, u) == \A d \in Days : CountOf(us1, u, d) = CountOf(us2, u, d)

\* the generator calls of u inside the 60 seconds that end with its k-th call
CallsInWindow(u, k) ==
    Cardinality({j \in 1..k : genLog[u][j] > genLog[u][k] - WindowSeconds})

\* C1: no user obtains more than RATE_LIMIT_PER_MINUTE generator calls within
\* any 60-second window when the requests do not overlap (the request after
\* the 10th call of a minute is denied).
C1_PerMinuteQuota ==
    \A u \in Users : \A k \in 1..Len(genLog[u]) :
        CallsInWindow(u, k) <= RATE_LIMIT_PER_MINUTE

\* C2: a generation request of a user whose row for today counts
\* RATE_LIMIT_PER_DAY or more is denied: the handler answers 429 and
\* checkRateLimit returned allowed = false, remainingMinute = 0,
\* remainingDaily = 0 and resetTime = the start of the next calendar day.
C2_DailyQuotaDenied ==
    \A p \in Procs :
        ( /\ IsGeneration(req[p])
          /\ pc[p] \notin {"idle", "rl_find"}
          /\ CountOf(Before(p).usage, req[p].user, loc[p].today) >= RATE_LIMIT_PER_DAY )
        => /\ Done(p)
           /\ resp[p].status = 429
           /\ loc[p].rateLimit.allowed = FALSE
           /\ loc[p].rateLimit.remainingMinute = 0
           /\ loc[p].rateLimit.remainingDaily = 0
           /\ loc[p].rateLimit.resetTime = Some((loc[p].today + 1) * DaySeconds)
           /\ ~loc[p].genCalled

C2_Witness ==
    \E p \in Procs :
        /\ Done(p) /\ IsGeneration(req[p]) /\ resp[p].status = 429
        /\ CountOf(usage, req[p].user, loc[p].today) = RATE_LIMIT_PER_DAY
        /\ nreq = MaxRequests

\* C3: a generation request whose generator call fails (the client cannot be
\* built, or the completion call throws) leaves the counts of its user as
\* they were before the request.
C3_FailedCallKeepsCount ==
    \A p \in Procs :
        (Done(p) /\ IsGeneration(req[p]) /\ resp[p].status = 500)
        => SameCounts(usage, Before(p).usage, req[p].user)

\* the inputs a cached text of the given type would be generated from now
CurrentInputs(type, iss) ==
    IF type = "commentSummary"
    THEN DigestInputs(iss.title, commentData(visibleComments(iss.comments)))
    ELSE SummaryInputs(iss.title, iss.description)

CacheHit(p) == Done(p) /\ req[p].kind = "ai" /\ resp[p].cached = "true"

\* C4: a request answered from the cache returns a text that was generated
\* from the inputs the issue has now: title and description for a summary or
\* a suggestion, the non-deleted comments and their contents for a comment
\* summary.
C4_NoStaleCachedContent ==
    \A p \in Procs :
        CacheHit(p) =>
            LET now_in == CurrentInputs(req[p].type, issues[req[p].issue])
                from == Val(resp[p].content).from
            IN  IF req[p].type = "commentSummary"
                THEN from.comments = now_in.comments
                ELSE from.title = now_in.title /\ from.description = now_in.description

\* C5: a request answered from the cache has not called the generator, has
\* left the count of every user's rows as it was, and returns the text the
\* slot holds, with cached = true.
C5_CacheHitIsFree ==
    \A p \in Procs :
        CacheHit(p) =>
            /\ ~loc[p].genCalled
            /\ loc[p].increments = 0
            /\ \A u \in Users : SameCounts(usage, Before(p).usage, u)
            /\ resp[p].status = 200
            /\ resp[p].content =
                   Some(cachedContent(req[p].type, IssueView(issues[req[p].issue])))

\* a first request of a user on a day (no row yet) that is a cache hit
C5_Witness ==
    \E p \in Procs :
        /\ CacheHit(p)
        /\ IsNull(Before(p).usage[req[p].user][loc[p].today])
        /\ ~IsNull(usage[req[p].user][loc[p].today])

\* validation fails on what the handler read: no description or one shorter
\* than MIN_DESCRIPTION_LENGTH, or fewer than MIN_COMMENTS comments
FailsValidation(p) ==
    /\ req[p].kind = "ai"
    /\ ~IsNull(loc[p].issue)
    /\ LET iss == Val(loc[p].issue)
       IN  IF req[p].type = "commentSummary" THEN Len(iss.comments) < MIN_COMMENTS
           ELSE \/ IsNull(iss.description)
                \/ Val(iss.description).len < MIN_DESCRIPTION_LENGTH

\* the quota check fails: today's count has reached the daily limit, or
\* checkRateLimit returned allowed = false
FailsQuota(p) ==
    /\ IsGeneration(req[p])
    /\ pc[p] \notin {"idle", "rl_find"}
    /\ \/ CountOf(Before(p).usage, req[p].user, loc[p].today) >= RATE_LIMIT_PER_DAY
       \/ loc[p].checked /\ ~loc[p].rateLimit.allowed

\* C6: a generation request that fails validation or fails the quota check
\* never calls the external generator.
C6_RejectedNeverGenerates ==
    \A p \in Procs :
        (FailsValidation(p) \/ FailsQuota(p)) =>
            /\ ~loc[p].genCalled
            /\ pc[p] \notin {"gen", "persist"}

C6_Witness ==
    \E p \in Procs :
        /\ Done(p) /\ FailsQuota(p) /\ resp[p].status = 429
        /\ req[p].kind = "ai" /\ routeDecision(req[p].type, Val(loc[p].issue)) = "generate"

SlotPaired(content, cachedAt) == Truthy(content) <=> ~IsNull(cachedAt)

\* C7: in every state, for every issue and each of its three slots, the
\* content is a non-empty text if and only if the cachedAt is not null.
C7_SlotAtomicity ==
    \A i \in Issues :
        /\ SlotPaired(issues[i].aiSummary, issues[i].aiSummaryCachedAt)
        /\ SlotPaired(issues[i].aiSuggestion, issues[i].aiSuggestionCachedAt)
        /\ SlotPaired(issues[i].aiCommentSummary, issues[i].aiCommentSummaryCachedAt)

\* a summary stored from an empty completion (the fallback text)
C7_Witness ==
    \E i \in EditedIssues :
        /\ ~IsNull(issues[i].aiSummaryCachedAt)
        /\ Val(issues[i].aiSummary).text = "Unable to generate summary."

Slots(iss) ==
    <<iss.aiSummary, iss.aiSummaryCachedAt, iss.aiSuggestion, iss.aiSuggestionCachedAt,
      iss.aiCommentSummary, iss.aiCommentSummaryCachedAt>>

OthersUntouched(p) ==
    \A j \in Issues \ {req[p].issue} : issues[j] = Before(p).issues[j]

DescriptionChanged(p) ==
    /\ Done(p) /\ req[p].kind = "put"
    /\ issues[req[p].issue].description # Before(p).issues[req[p].issue].description

CommentAdded(p) == Done(p) /\ req[p].kind = "comment_add"

\* C8: an update that changes the description empties the summary and the
\* suggestion slot of the issue and leaves its comment summary slot as it
\* was; adding a comment empties the comment summary slot and leaves the
\* summary and the suggestion slot as they were; no other issue changes.
C8_InvalidationMapping ==
    \A p \in Procs :
        LET iss == issues[req[p].issue]
            old == Before(p).issues[req[p].issue]
        IN  /\ DescriptionChanged(p) =>
                /\ IsNull(iss.aiSummary) /\ IsNull(iss.aiSummaryCachedAt)
                /\ IsNull(iss.aiSuggestion) /\ IsNull(iss.aiSuggestionCachedAt)
                /\ iss.aiCommentSummary = old.aiCommentSummary
                /\ iss.aiCommentSummaryCachedAt = old.aiCommentSummaryCachedAt
                /\ OthersUntouched(p)
            /\ CommentAdded(p) =>
                /\ IsNull(iss.aiCommentSummary) /\ IsNull(iss.aiCommentSummaryCachedAt)
                /\ iss.aiSummary = old.aiSummary
                /\ iss.aiSummaryCachedAt = old.aiSummaryCachedAt
                /\ iss.aiSuggestion = old.aiSuggestion
                /\ iss.aiSuggestionCachedAt = old.aiSuggestionCachedAt
                /\ OthersUntouched(p)

\* the description of an issue with a cached summary and a cached comment
\* summary has been changed
C8_Witness ==
    \E p \in Procs :
        /\ DescriptionChanged(p)
        /\ ~IsNull(Before(p).issues[req[p].issue].aiSummary)
        /\ ~IsNull(Before(p).issues[req[p].issue].aiCommentSummary)

OnlyOtherFields(body) ==
    /\ IsNull(body.title) /\ IsNull(body.description)
    /\ body # EmptyBody

Generated(p) ==
    Done(p) /\ req[p].kind = "ai" /\ resp[p].status = 200 /\ resp[p].cached = "false"

\* C10: a successful answer with cached = false goes with exactly one
\* increment of its user's count: one row of the user counts one more than
\* before the request, and no other row of any user has changed its count.
C10_GeneratedCountsOnce ==
    \A p \in Procs :
        Generated(p) =>
            /\ loc[p].increments = 1
            /\ \E d \in Days :
                  /\ CountOf(usage, req[p].user, d) = CountOf(Before(p).usage, req[p].user, d) + 1
                  /\ \A e \in Days \ {d} :
                        CountOf(usage, req[p].user, e) = CountOf(Before(p).usage, req[p].user, e)
            /\ \A u \in Users \ {req[p].user} : SameCounts(usage, Before(p).usage, u)

\* a generated answer for a user whose row existed before the request
C10_Witness ==
    \E p \in Procs :
        /\ Generated(p)
        /\ ~IsNull(Before(p).usage[req[p].user][loc[p].today])
        /\ ~IsNull(issues[req[p].issue].aiSuggestion)

\* the step is the upsert of incrementUsage by some handler
IsIncrementStep == \E p \in Procs : pc[p] = "incr" /\ incrementUsage(p)

\* C11: the count of every (user, day) is never negative and never
\* decreases; every change of it is an increase by exactly 1 made by a step
\* of incrementUsage; no other step writes another value.
C11_LedgerMonotone ==
    [][\A u \in Users, d \in Days :
          /\ CountOf(usage, u, d) >= 0
          /\ CountOf(usage', u, d) >= 0
          /\ \/ CountOf(usage', u, d) = CountOf(usage, u, d)
             \/ /\ CountOf(usage', u, d) = CountOf(usage, u, d) + 1
                /\ IsIncrementStep]_vars

\* a handler has incremented a row that existed, and another row was created
\* with count 0 by a quota check
C11_Witness ==
    /\ \E p \in Procs :
          /\ loc[p].increments = 1
          /\ ~IsNull(Before(p).usage[req[p].user][loc[p].today])
          /\ CountOf(usage, req[p].user, loc[p].today)
                = CountOf(Before(p).usage, req[p].user, loc[p].today) + 1
    /\ \E u \in Users, d \in Days : ~IsNull(usage[u][d]) /\ Val(usage[u][d]).count = 0

\* C12: when quota checks of the same user overlap on a day that has no
\* row yet, every one of them returns (with today's row) instead of failing:
\* no generation handler ends without its checkRateLimit having returned.
\* (At most one row per user and day holds by the unique index.)
C12_ConcurrentGetOrCreate ==
    \A p \in Procs :
        (Done(p) /\ IsGeneration(req[p])) => loc[p].checked

\* p's checkRateLimit returned after reading the count just below the daily
\* limit, and p's request needs a generation
PassedAtLast(p) ==
    /\ req[p].kind = "ai"
    /\ loc[p].checked
    /\ loc[p].dailyCount = RATE_LIMIT_PER_DAY - 1
    /\ routeDecision(req[p].type, Val(loc[p].issue)) = "generate"

\* two overlapping requests of one user that both read count = limit - 1
RacePair(p, q) ==
    /\ p # q
    /\ req[p].user = req[q].user
    /\ loc[p].today = loc[q].today
    /\ PassedAtLast(p) /\ PassedAtLast(q)

\* C13: two requests of one user that both ran the quota check while the
\* count was RATE_LIMIT_PER_DAY - 1 are both allowed and go on to increment
\* and to generate; neither is answered 429, an answer 200 comes from a
\* generator call, and once both have incremented the count is above the
\* limit.
C13_QuotaRace ==
    \A p, q \in Procs :
        RacePair(p, q) =>
            /\ loc[p].rateLimit.allowed /\ loc[q].rateLimit.allowed
            /\ pc[p] \in {"incr", "gen", "persist", "done"}
            /\ resp[p].status # 429
            /\ (resp[p].status = 200 => loc[p].genCalled /\ resp[p].cached = "false")
            /\ (loc[p].increments = 1 /\ loc[q].increments = 1)
                  => CountOf(usage, req[p].user, loc[p].today) > RATE_LIMIT_PER_DAY

\* both requests were answered with a generated text and the count is
\* RATE_LIMIT_PER_DAY + 1
C13_Witness ==
    \E p, q \in Procs :
        /\ RacePair(p, q)
        /\ Generated(p) /\ Generated(q)
        /\ CountOf(usage, req[p].user, loc[p].today) = RATE_LIMIT_PER_DAY + 1

\* a summary request that found the slot empty, has a description that
\* passes the handler's validation, was allowed by the quota check, and whose
\* generator call did not fail
SummaryMiss(p) ==
    /\ Done(p) /\ req[p].kind = "ai" /\ req[p].type = "summary"
    /\ IsNull(Before(p).issues[req[p].issue].aiSummary)
    /\ canUseAI(Val(loc[p].issue).description)
    /\ loc[p].checked /\ loc[p].rateLimit.allowed
    /\ resp[p].status # 500

\* C14: an update that changes the description of an issue with a cached
\* summary leaves the summary slot empty, and the next summary request for
\* the issue (quota left, description accepted, generator answering) is not
\* served from the cache: it calls the generator once, increments once and
\* stores the text generated from the new description in the slot.
C14_RegenerationAfterInvalidation ==
    \A p \in Procs :
        LET iss == issues[req[p].issue]
        IN  /\ DescriptionChanged(p) =>
                  IsNull(iss.aiSummary) /\ IsNull(iss.aiSummaryCachedAt)
            /\ SummaryMiss(p) =>
                  /\ resp[p].status = 200 /\ resp[p].cached = "false"
                  /\ loc[p].genCalled /\ loc[p].increments = 1
                  /\ Len(genLog[req[p].user]) = Len(Before(p).genLog[req[p].user]) + 1
                  /\ Truthy(iss.aiSummary) /\ iss.aiSummaryCachedAt = Some(now)
                  /\ iss.aiSummary = resp[p].content
                  /\ Val(iss.aiSummary).from = SummaryInputs(iss.title, iss.description)

\* the summary of the issue that had one cached is generated again, from a
\* description other than the one it was first cached for
C14_Witness ==
    \E p \in Procs :
        /\ SummaryMiss(p) /\ Generated(p)
        /\ req[p].issue \in CachedIssues
        /\ issues[req[p].issue].description # InitIssues[req[p].issue].description
        /\ Val(issues[req[p].issue].aiSummary).from.description
              = issues[req[p].issue].description

\* the request left every count and every cached slot as it was
NoLedgerOrCacheEffect(p) ==
    /\ \A u \in Users : SameCounts(usage, Before(p).usage, u)
    /\ \A i \in Issues : Slots(issues[i]) = Slots(Before(p).issues[i])

DigestRequest(p) == Done(p) /\ req[p].kind = "ai" /\ req[p].type = "commentSummary"

\* C15: a comment summary request for an issue with fewer than MIN_COMMENTS
\* non-deleted comments is answered with the validation error (400) and
\* changes neither a count nor a slot; with MIN_COMMENTS or more, quota
\* left and the generator answering, it is answered 200 and the comment
\* summary slot is populated.
C15_DigestThreshold ==
    \A p \in Procs :
        DigestRequest(p) =>
            IF Len(Val(loc[p].issue).comments) < MIN_COMMENTS
            THEN /\ resp[p].status = 400
                 /\ resp[p].error = validationMessage("commentSummary")
                 /\ NoLedgerOrCacheEffect(p)
            ELSE (loc[p].checked /\ loc[p].rateLimit.allowed /\ resp[p].status # 500)
                    => /\ resp[p].status = 200
                       /\ commentSummaryCached(issues[req[p].issue])

ShortDescriptionRequest(p) ==
    /\ Done(p) /\ req[p].kind = "ai" /\ req[p].type \in {"summary", "suggestion"}
    /\ LET d == Val(loc[p].issue).description
       IN  IsNull(d) \/ Val(d).len < MIN_DESCRIPTION_LENGTH

\* C16: a summary or suggestion request for an issue whose description is
\* shorter than MIN_DESCRIPTION_LENGTH is answered with the validation error
\* (400) and changes no count and no cached slot of any issue.
C16_ShortDescriptionNoEffect ==
    \A p \in Procs :
        ShortDescriptionRequest(p) =>
            /\ resp[p].status = 400
            /\ resp[p].error = validationMessage(req[p].type)
            /\ NoLedgerOrCacheEffect(p)

\* The terminal outcomes of a generation request are the four kinds of
\* answer of the handler: 200, 429 after a denying quota check, 400 with the
\* validation message, and the 500 of the handler's catch.
Served(p) == resp[p].status = 200 /\ loc[p].checked /\ loc[p].rateLimit.allowed
QuotaExceeded(p) ==
    resp[p].status = 429 /\ loc[p].checked /\ ~loc[p].rateLimit.allowed
ValidationFailed(p) ==
    resp[p].status = 400 /\ resp[p].error = validationMessage(req[p].type)
UpstreamFailed(p) == resp[p].status = 500 /\ IsNull(resp[p].content)

OutcomeCount(p) ==
    (IF Served(p) THEN 1 ELSE 0) + (IF QuotaExceeded(p) THEN 1 ELSE 0)
    + (IF ValidationFailed(p) THEN 1 ELSE 0) + (IF UpstreamFailed(p) THEN 1 ELSE 0)

\* the next step of the handler p, whatever the generator does
HandlerStep(p) ==
    \/ checkRateLimitFind(p) \/ checkRateLimitCreate(p) \/ checkRateLimitCount(p)
    \/ incrementUsage(p) \/ persistResult(p)
    \/ \E o \in GenOutcomes : callGenerator(p, o)

\* C17: a generation request that has ended has reached exactly one of
\* Served, QuotaExceeded, ValidationFailed and UpstreamFailed, and keeps it
\* until the handler returns; one that is still running has reached none
\* and can take its next step.
C17_OneTerminalOutcome ==
    [][\A p \in Procs :
          IsGeneration(req[p]) =>
              IF Done(p)
              THEN /\ OutcomeCount(p) = 1
                   /\ resp'[p] = resp[p] \/ pc'[p] = "idle"
              ELSE /\ resp[p] = NoResponse
                   /\ ENABLED HandlerStep(p)]_vars

\* a request has ended in ValidationFailed, after another one had ended
C17_Witness ==
    \E p \in Procs :
        /\ Done(p) /\ IsGeneration(req[p])
        /\ ValidationFailed(p) /\ OutcomeCount(p) = 1
        /\ nreq = MaxRequests

\* C18: a request that fails validation (description absent or shorter than
\* MIN_DESCRIPTION_LENGTH, or fewer than MIN_COMMENTS comments) ends in
\* ValidationFailed whatever the quota state, and checkRateLimit is not run
\* for it: no result of it exists and the ledger is as it was.
C18_ValidateBeforeQuota ==
    \A p \in Procs :
        (Done(p) /\ FailsValidation(p)) =>
            /\ ValidationFailed(p)
            /\ ~loc[p].checked
            /\ usage = Before(p).usage

\* C19: a request that the quota check denies ends in QuotaExceeded, also
\* when the slot it asks for is populated: the cached text is not returned,
\* nothing is generated, and no count and no slot changes.
C19_QuotaBeforeCache ==
    \A p \in Procs :
        (IsGeneration(req[p]) /\ loc[p].checked /\ ~loc[p].rateLimit.allowed) =>
            /\ Done(p) /\ QuotaExceeded(p)
            /\ IsNull(resp[p].content) /\ resp[p].cached = "none"
            /\ ~loc[p].genCalled /\ loc[p].increments = 0
            /\ NoLedgerOrCacheEffect(p)

\* a denied request for a text that is in the cache
C19_Witness ==
    \E p \in Procs :
        /\ Done(p) /\ QuotaExceeded(p) /\ req[p].kind = "ai"
        /\ routeDecision(req[p].type, Val(loc[p].issue)) = "hit"
        /\ Truthy(Some(cachedContent(req[p].type, IssueView(issues[req[p].issue]))))

\* a finished summary or suggestion request that the quota check allowed and
\* that found its slot empty, so that the handler came to validate
Validated(p) ==
    /\ Done(p) /\ req[p].kind = "ai" /\ req[p].type \in {"summary", "suggestion"}
    /\ loc[p].checked /\ loc[p].rateLimit.allowed
    /\ routeDecision(req[p].type, Val(loc[p].issue)) # "hit"

DescriptionLength(p) ==
    LET d == Val(loc[p].issue).description
    IN  IF IsNull(d) THEN 0 ELSE Val(d).len

\* C20 as claimed: a description of at least MIN_DESCRIPTION_LENGTH (10)
\* characters passes validation for summary and suggestion, and only shorter
\* or absent ones are rejected.
C20_AtLeastTenAccepted ==
    \A p \in Procs :
        Validated(p) =>
            (ValidationFailed(p) <=> DescriptionLength(p) < MIN_DESCRIPTION_LENGTH)

\* C20 amended: a description passes validation for summary and suggestion
\* exactly when it is longer than MIN_DESCRIPTION_LENGTH (10) characters; one
\* of exactly 10 characters, a shorter one or none is rejected with the
\* validation error before anything is counted or generated, a longer one
\* goes on to the increment and the generator.
C20_LongerThanTenAccepted ==
    \A p \in Procs :
        Validated(p) =>
            IF DescriptionLength(p) > MIN_DESCRIPTION_LENGTH
            THEN ~ValidationFailed(p) /\ loc[p].increments = 1
            ELSE ValidationFailed(p) /\ loc[p].increments = 0 /\ ~loc[p].genCalled

\* a description of exactly 10 characters has been rejected
C20_Witness ==
    \E p \in Procs :
        /\ Validated(p) /\ ValidationFailed(p)
        /\ DescriptionLength(p) = MIN_DESCRIPTION_LENGTH

\* the step is one of the three parts of checkRateLimit run by a handler
IsRateLimitStep ==
    \E p \in Procs :
        \/ checkRateLimitFind(p) \/ checkRateLimitCreate(p) \/ checkRateLimitCount(p)

\* the only row written is new, with count 0, for the user and the day
\* ("today") of a handler that is in checkRateLimit
LazyCreateOnly(u, d) ==
    usage'[u][d] # usage[u][d] =>
        /\ IsNull(usage[u][d])
        /\ usage'[u][d] = Some(UsageRow(0, now))
        /\ \E p \in Procs :
              pc[p] = "rl_create" /\ req[p].user = u /\ loc[p].today = d

\* C21: a step of checkRateLimit, allowing or denying, leaves every count as
\* it was and writes at most today's new row with count 0; a handler runs
\* incrementUsage only once its generation has taken place, and never for a
\* cache hit or a denial.
C21_QuotaCheckReadsOnly ==
    [][/\ IsRateLimitStep =>
             \A u \in Users, d \in Days :
                 /\ CountOf(usage', u, d) = CountOf(usage, u, d)
                 /\ LazyCreateOnly(u, d)
       /\ \A p \in Procs :
             (pc[p] = "incr" /\ incrementUsage(p)) =>
                 /\ loc[p].genCalled
                 /\ loc[p].checked /\ loc[p].rateLimit.allowed
                 /\ req[p].kind = "ai" =>
                        routeDecision(req[p].type, Val(loc[p].issue)) = "generate"]_vars

\* the request p has read the issue after the comment of handler q was
\* created: its view ends with that comment
SeesNewComment(p, q) ==
    LET view == Val(loc[p].issue)
        old == visibleComments(Before(q).issues[req[q].issue].comments)
    IN  /\ req[p].issue = req[q].issue
        /\ Len(view.comments) = Len(old) + 1
        /\ view.comments[Len(view.comments)] = Comment(req[q].user, req[q].content)

\* C22: adding a comment and emptying the comment summary slot are one
\* step: no comment summary request reads the new comment in the issue's
\* comments together with the summary that was in the slot before the
\* comment was added.
C22_CommentAndClearAtomic ==
    \A p, q \in Procs :
        ( /\ req[p].kind = "ai" /\ req[p].type = "commentSummary"
          /\ req[q].kind = "comment_add"
          /\ SeesNewComment(p, q) )
        => LET view == Val(loc[p].issue)
               old == Before(q).issues[req[q].issue]
           IN  ~( /\ Truthy(view.aiCommentSummary)
                  /\ view.aiCommentSummary = old.aiCommentSummary
                  /\ view.aiCommentSummaryCachedAt = old.aiCommentSummaryCachedAt )

\* the slot of the request's type, content and cachedAt
SlotOf(iss, type) ==
    CASE type = "summary" -> <<iss.aiSummary, iss.aiSummaryCachedAt>>
      [] type = "suggestion" -> <<iss.aiSuggestion, iss.aiSuggestionCachedAt>>
      [] type = "commentSummary" -> <<iss.aiCommentSummary, iss.aiCommentSummaryCachedAt>>

\* C23: when a database call of checkRateLimit throws (the read, the lazy
\* create or the count), the request ends with an error answer: the
\* generator is not called, nothing is incremented, no slot is written, and
\* the request never goes on as if it were allowed.
C23_FailClosed ==
    \A p \in Procs :
        loc[p].failedAt \in LedgerAwaits =>
            /\ Done(p) /\ resp[p].status = 500 /\ IsNull(resp[p].content)
            /\ ~loc[p].checked
            /\ ~loc[p].genCalled /\ loc[p].increments = 0
            /\ NoLedgerOrCacheEffect(p)

\* the read of today's row threw for a request that would have generated
C23_Witness ==
    \E p \in Procs :
        /\ Done(p) /\ loc[p].failedAt = "rl_find" /\ req[p].kind = "ai"
        /\ CountOf(usage, req[p].user, DayOf(now)) < RATE_LIMIT_PER_DAY
        /\ routeDecision(req[p].type, Val(loc[p].issue)) = "generate"

\* C24: a request answered with a generated text (200, cached = false) has
\* incremented the ledger once and has written the text and its cachedAt
\* into the slot, with no database call having thrown; a request whose
\* increment or cache write threw is answered with an error, not a success.
C24_PersistAllOrDetectable ==
    \A p \in Procs :
        /\ Generated(p) =>
              /\ loc[p].failedAt = "none"
              /\ loc[p].increments = 1
              /\ \E d \in Days :
                    CountOf(usage, req[p].user, d)
                       = CountOf(Before(p).usage, req[p].user, d) + 1
              /\ SlotOf(writeSlot(Before(p).issues[req[p].issue], req[p].type,
                                  Val(loc[p].content), now), req[p].type)
                    = SlotOf(issues[req[p].issue], req[p].type)
              /\ Truthy(SlotOf(issues[req[p].issue], req[p].type)[1])
        /\ loc[p].failedAt \in {"incr", "persist"} =>
              /\ Done(p) /\ resp[p].status = 500 /\ IsNull(resp[p].content)

\* the cache write threw after the increment: the caller is told
C24_Witness ==
    \E p \in Procs :
        /\ Done(p) /\ loc[p].failedAt = "persist" /\ resp[p].status = 500
        /\ loc[p].increments = 1
        /\ SlotOf(issues[req[p].issue], req[p].type)
              = SlotOf(Before(p).issues[req[p].issue], req[p].type)

\* what the handler stores for a generated content
Stored(type, content) ==
    IF type = "commentSummary" THEN JsonStringify(content) ELSE content

\* two overlapping requests for the same text of one issue that both read an
\* empty slot and were both allowed
StampedePair(p, q) ==
    /\ p # q
    /\ req[p].kind = "ai" /\ req[q].kind = "ai"
    /\ req[p].issue = req[q].issue /\ req[p].type = req[q].type
    /\ loc[p].checked /\ loc[p].rateLimit.allowed
    /\ loc[q].checked /\ loc[q].rateLimit.allowed
    /\ routeDecision(req[p].type, Val(loc[p].issue)) = "generate"
    /\ routeDecision(req[q].type, Val(loc[q].issue)) = "generate"

MinOf(a, b) == IF a <= b THEN a ELSE b

\* C25: two overlapping requests for the same issue and type that both read
\* an empty slot both go on to the generator and neither is served from the
\* cache; once both are answered with a generated text, each has called the
\* generator and incremented once (two more in the ledger when they are one
\* user's) and the slot holds a text with its cachedAt.  Every cache write
\* replaces what is in the slot, so the slot holds the last writer's text.
C25_CacheStampede ==
    [][/\ \A p, q \in Procs :
             StampedePair(p, q)' =>
                /\ pc'[p] \in {"incr", "gen", "persist", "done"}
                /\ resp'[p].cached # "true"
                /\ (Generated(p)' /\ Generated(q)') =>
                      /\ loc'[p].genCalled /\ loc'[q].genCalled
                      /\ loc'[p].increments = 1 /\ loc'[q].increments = 1
                      /\ req'[p].user = req'[q].user =>
                            CountOf(usage', req'[p].user, loc'[p].today)
                               >= MinOf(CountOf(Before(p)'.usage, req'[p].user, loc'[p].today),
                                        CountOf(Before(q)'.usage, req'[p].user, loc'[p].today)) + 2
                      /\ Truthy(SlotOf(issues'[req'[p].issue], req'[p].type)[1])
                      /\ ~IsNull(SlotOf(issues'[req'[p].issue], req'[p].type)[2])
       /\ \A p \in Procs :
             (pc[p] = "persist" /\ persistResult(p)) =>
                SlotOf(issues'[req[p].issue], req[p].type)
                   = <<Some(Stored(req[p].type, Val(loc[p].content))), Some(now)>>]_vars

\* both requests of one user were answered with different generated texts,
\* the count went up by two and the slot holds one of the texts
C25_Witness ==
    \E p, q \in Procs :
        /\ StampedePair(p, q) /\ Generated(p) /\ Generated(q)
        /\ req[p].user = req[q].user
        /\ loc[p].content # loc[q].content
        /\ issues[req[p].issue].aiSummary = loc[q].content
        /\ CountOf(usage, req[p].user, loc[p].today)
              = CountOf(Before(p).usage, req[p].user, loc[p].today) + 2

\* a request answered 200 with a text that did not come from the cache
NonCachedSuccess(p) ==
    Done(p) /\ resp[p].status = 200 /\ resp[p].cached # "true" /\ loc[p].genCalled

\* the first half of C26: the reported values are those of the request's own
\* quota check, less one, and are not negative
ReportsOwnCheck(p) ==
    /\ resp[p].remaining
          = Remaining(RATE_LIMIT_PER_MINUTE - loc[p].recentUsage - 1,
                      RATE_LIMIT_PER_DAY - loc[p].dailyCount - 1)
    /\ Val(resp[p].remaining).minute >= 0
    /\ Val(resp[p].remaining).daily >= 0

\* C26: a non-cached success reports remaining.daily = RATE_LIMIT_PER_DAY - c - 1
\* and remaining.minute = RATE_LIMIT_PER_MINUTE - m - 1 for the c and m its own
\* quota check read, neither negative, and (requests do not overlap here)
\* remaining.daily is RATE_LIMIT_PER_DAY less the count of a ledger row of
\* the user after the request.
C26_ReportedRemaining ==
    \A p \in Procs :
        NonCachedSuccess(p) =>
            /\ ReportsOwnCheck(p)
            /\ \E d \in Days :
                  Val(resp[p].remaining).daily
                     = RATE_LIMIT_PER_DAY - CountOf(usage, req[p].user, d)

\* the first request of user and day: no row of that day when it started
FirstOfDay(p) ==
    /\ req[p].kind \in {"ai", "general"}
    /\ loc[p].checked
    /\ IsNull(Before(p).usage[req[p].user][loc[p].today])

\* C27: a row of an earlier day is never modified; a row that appears is
\* created by the quota check with count 0 or by incrementUsage with count 1;
\* and the first request of a user on a day reads count 0 and is allowed,
\* whatever the count of the day before, so a user denied on day d is allowed
\* again on day d + 1.
C27_DayRollover ==
    [][/\ \A u \in Users, d \in Days :
             /\ (d < DayOf(now) /\ ~IsNull(usage[u][d])) => usage'[u][d] = usage[u][d]
             /\ (IsNull(usage[u][d]) /\ ~IsNull(usage'[u][d])) =>
                   Val(usage'[u][d]).count = IF IsRateLimitStep THEN 0 ELSE 1
       /\ \A p \in Procs :
             FirstOfDay(p)' => loc'[p].rateLimit.allowed /\ loc'[p].dailyCount = 0]_vars

\* a user whose count of day 0 is at the limit is answered with a generated
\* text by the first request of day 1, whose row then counts 1
C27_Witness ==
    \E p \in Procs :
        /\ FirstOfDay(p) /\ Done(p) /\ loc[p].today = 1
        /\ DailyLimitReached(CountOf(usage, req[p].user, 0))
        /\ resp[p].status = 200 /\ loc[p].genCalled
        /\ CountOf(usage, req[p].user, 1) = 1

FromCurrentDescription(slot, iss) ==
    Truthy(slot) => Val(slot).from.description = iss.description

\* a digest in the slot was generated from the comments the issue has now,
\* once no comment handler is between its create and its clear
FromCurrentComments(i) ==
    ( /\ Truthy(issues[i].aiCommentSummary)
      /\ \A q \in Procs : ~(pc[q] = "clear" /\ req[q].issue = i) )
    => JsonParse(Val(issues[i].aiCommentSummary)).from.comments
          = commentData(issues[i].comments)

\* C29: a slot cleared while a generation was in flight is not filled again
\* with the text of that generation: a populated summary or suggestion slot
\* holds a text generated from the current description, and a populated digest
\* slot holds a digest of the current comments.
C29_InvalidationNotUndone ==
    \A i \in Issues :
        /\ FromCurrentDescription(issues[i].aiSummary, issues[i])
        /\ FromCurrentDescription(issues[i].aiSuggestion, issues[i])
        /\ FromCurrentComments(i)

\* The ledgers that agree with the ledger on the rows of u and hold other
\* rows for everybody else: none, fresh ones, ones at the daily limit.
OtherRows ==
    {Null, Some(UsageRow(0, now)), Some(UsageRow(RATE_LIMIT_PER_DAY, now))}

AltLedgers(u) ==
    { [v \in Users |-> IF v = u THEN usage[u] ELSE [d \in Days |-> r]] : r \in OtherRows }

\* what checkRateLimit of handler p reads from ledger us
ReadsOf(us, p) ==
    <<findUsage(us, req[p].user, DayOf(now)),
      findUsage(us, req[p].user, loc[p].today),
      recentUsageCount(us, req[p].user, loc[p].oneMinuteAgo)>>

\* the result checkRateLimit returns from its count step, given the ledger
DecisionOf(us, p) ==
    IF MinuteLimitReached(ReadsOf(us, p)[3])
    THEN DeniedMinute(loc[p].dailyCount, loc[p].oneMinuteAgo)
    ELSE Allowed(loc[p].dailyCount, ReadsOf(us, p)[3])

====
